---- MODULE Spec2Model ----
(***************************************************************************)
(* Address API (src/main.py, src/models/address.py): CRUD over the         *)
(* addresses table, content-derived ETags, offset pagination, GeoJSON      *)
(* export and the asynchronous delete with its in-memory job map.          *)
(*                                                                         *)
(* Handlers are synchronous (def, not async def), so the framework runs    *)
(* them on a thread pool and background tasks run on it too: a handler     *)
(* is atomic only between two accesses to shared state (the table, the     *)
(* jobs dict).  A handler with two such accesses is two actions, with its  *)
(* local variables held in `calls` in between.                             *)
(***************************************************************************)
EXTENDS Integers, Sequences, FiniteSets, Bags, TLC

VARIABLES
    db,     \* the addresses table: str(id) -> row (a dict of the columns)
    jobs,   \* main.py `jobs`: job_id -> job dict
    tasks,  \* the background task of each job: where process_delete_job stands,
            \* the exception it caught and the state of its connection
    calls,  \* handler calls between two accesses to shared state (a bag)
    resp    \* the response most recently produced by a handler

vars == <<db, jobs, tasks, calls, resp>>

\* ------------------------------------------------------------------ bounds

MaxIds == 1         \* distinct UUID values the requests draw from
MaxJobs == 2        \* delete jobs accepted in one run
MaxCalls == 2       \* handler calls in flight at once
MaxTotal == 6       \* rows of the table the pagination is checked on
MaxLimit == 4       \* small limits the pagination is checked on
MaxOffset == 7      \* offsets the pagination is checked on
MaxClock == 2       \* distinct readings of the clock in one run
MaxLists == 1       \* GET /addresses requests made in one run
MaxJobAddresses == 2 \* addresses the clients that delete and poll work on

UuidValues == 1..MaxIds
JobIds == 1..MaxJobs

\* ------------------------------------------------------------ python values

\* Python None inside a str-valued field (no request text equals it).
None == "<None>"

EmptyDict == << >>

\* dict.get(k): the value, or None when the key is absent.
Get(d, k) == IF k \in DOMAIN d THEN d[k] ELSE None

\* A UUID object, and the text forms a client may write it in.
UUIDObject(n) == [uuid |-> n]
UuidForms == {"lower", "upper"}
UuidText(n, form) == [hex |-> n, form |-> form]

\* uuid.UUID(text): parsing drops the form the text was written in.
UUID(text) == UUIDObject(text.hex)

\* str(uuid): always the canonical lower-case form.
str(u) == UuidText(u.uuid, "lower")

IsUUIDObject(v) == DOMAIN v = {"uuid"}

\* pydantic's coercion of the `id` field: a UUID stays, a str is parsed.
AsUUID(v) == IF IsUUIDObject(v) THEN v ELSE UUID(v)

Fields == {"name", "street", "unit", "city", "state", "postal_code", "country"}

\* datetime.utcnow(): the reading of the clock at the call.  Every call reads
\* the clock again; two readings may differ or, within the resolution of the
\* clock, be equal.
Clock == 1..MaxClock
utcnow(reading) == [utcnow |-> reading]

\* The readings of n successive calls of one handler: the clock does not step
\* back while the handler runs.
RECURSIVE ReadingsFrom(_, _)
ReadingsFrom(n, first) ==
    IF n = 0 THEN {<< >>}
    ELSE UNION {{<<t>> \o rest : rest \in ReadingsFrom(n - 1, t)} : t \in first..MaxClock}

Readings(n) == ReadingsFrom(n, 1)

\* One AddressRead construction calls the clock twice: created_at, updated_at.
Stamps == Readings(2)

links_of(id_text) ==
    << [rel |-> "self", href |-> <<"/addresses/", id_text>>],
       [rel |-> "collection", href |-> <<"/addresses">>] >>

\* AddressRead.links defaults to None; every handler assigns it before use.
NoLinks == << >>

\* ---------------------------------------------------------------- models

\* AddressBase / AddressCreate request validation: street, city, country are
\* required strings; name, when given, must be a string; the rest may be null.
\* A key that is no field of the model is ignored (pydantic's default).
AddressCreateValid(payload) ==
    /\ \A f \in {"street", "city", "country"} : f \in DOMAIN payload /\ payload[f] # None
    /\ "name" \in DOMAIN payload => payload["name"] # None

\* AddressCreate(**payload): id from the payload or uuid4(), name/unit/state/
\* postal_code default to None.
AddressCreate(payload, uuid4) ==
    [id |-> IF "id" \in DOMAIN payload THEN UUID(payload["id"]) ELSE uuid4,
     name |-> Get(payload, "name"),
     street |-> payload["street"],
     unit |-> Get(payload, "unit"),
     city |-> payload["city"],
     state |-> Get(payload, "state"),
     postal_code |-> Get(payload, "postal_code"),
     country |-> payload["country"]]

\* AddressRead(**d) validates what it is given: name, street, city and country
\* are typed str, so an explicit None raises ValidationError.  created_at and
\* updated_at, absent from d, are stamped by their default_factory, one call
\* of the clock each (`now` holds the two readings).
AddressReadValid(d) ==
    \A f \in {"name", "street", "city", "country"} : d[f] # None

AddressRead(d, now) ==
    [id |-> AsUUID(d["id"]),
     name |-> d["name"], street |-> d["street"], unit |-> d["unit"],
     city |-> d["city"], state |-> d["state"],
     postal_code |-> d["postal_code"], country |-> d["country"],
     created_at |-> IF "created_at" \in DOMAIN d THEN d["created_at"] ELSE utcnow(now[1]),
     updated_at |-> IF "updated_at" \in DOMAIN d THEN d["updated_at"] ELSE utcnow(now[2]),
     links |-> IF "links" \in DOMAIN d THEN d["links"] ELSE NoLinks]

\* The JSON body of a response_model=AddressRead response: the UUID is written
\* in its canonical text.
AddressReadJson(r) == [r EXCEPT !["id"] = str(r["id"])]

\* AddressUpdate(**body).model_dump(exclude_unset=True): exactly the fields
\* the body set (a field set to null is kept, with None); a key of the body
\* that is no field of the model is ignored.
model_dump_exclude_unset(update) == [k \in DOMAIN update \cap Fields |-> update[k]]

\* {**a, **b}
Merge(a, b) ==
    [k \in DOMAIN a \cup DOMAIN b |-> IF k \in DOMAIN b THEN b[k] ELSE a[k]]

\* --------------------------------------------------------------- ETag

\* json.dumps(resource, sort_keys=True, default=str): the keys in a fixed order
\* (a function has no order), a UUID object written through str().
json_dumps(resource) ==
    [k \in DOMAIN resource |->
        IF k = "id" /\ IsUUIDObject(resource[k]) THEN str(resource[k])
        ELSE resource[k]]

\* Mutant: the digest is taken over the id alone.
compute_etag_of_id(resource) == [sha256 |-> json_dumps([k \in {"id"} |-> resource[k]])]

\* sha256 is taken as injective: the digest stands for the text it hashes.
compute_etag(resource) == [sha256 |-> json_dumps(resource)]

\* request.headers.get("if-match"): None, or the header's text.
NoHeader == [absent |-> TRUE]
EmptyHeader == [text |-> ""]

\* Python truthiness of the header value: None and "" are falsy.
Truthy(h) == h # NoHeader /\ h # EmptyHeader

\* ------------------------------------------------------------- responses

Response(op, status_code, headers, body) ==
    [op |-> op, status_code |-> status_code, headers |-> headers, body |-> body]

HTTPException(op, status_code, detail) ==
    Response(op, status_code, EmptyDict, [detail |-> detail])

\* An exception no handler catches: the server answers 500.
InternalServerError(op) ==
    Response(op, 500, EmptyDict, [detail |-> "Internal Server Error"])

\* Request validation by the framework (path, query and body models).
UnprocessableEntity(op) ==
    Response(op, 422, EmptyDict, [detail |-> "validation error"])

NoResponse == Response("none", 0, EmptyDict, EmptyDict)

\* ---------------------------------------------------------------- calls

InFlight == BagToSet(calls)
Begin(c) == calls (+) SetToBag({c})
End(c) == calls (-) SetToBag({c})
CanBegin == BagCardinality(calls) < MaxCalls

\* ------------------------------------------------------------ the table

\* Mutant: the unit and state values bound to each other's column.
InsertRow_swapped(address) ==
    [id |-> str(address["id"]),
     name |-> address["name"], street |-> address["street"],
     unit |-> address["state"], city |-> address["city"],
     state |-> address["unit"], postal_code |-> address["postal_code"],
     country |-> address["country"]]

\* INSERT INTO addresses (id, name, street, unit, city, state, postal_code,
\* country) VALUES (str(address.id), address.name, ...)
InsertRow(address) ==
    [id |-> str(address["id"]),
     name |-> address["name"], street |-> address["street"],
     unit |-> address["unit"], city |-> address["city"],
     state |-> address["state"], postal_code |-> address["postal_code"],
     country |-> address["country"]]

\* UPDATE addresses SET name=.., street=.., unit=.., city=.., state=..,
\* postal_code=.., country=.. WHERE id=..: the seven columns are written from
\* updated_data.get(..); a statement that matches no row changes nothing.
UpdateRow(table, key, updated_data) ==
    IF key \in DOMAIN table
    THEN [table EXCEPT ![key] =
            [col \in DOMAIN table[key] |->
                IF col \in Fields THEN Get(updated_data, col) ELSE table[key][col]]]
    ELSE table

\* DELETE FROM addresses WHERE id = ..., committed: the row is gone; a
\* statement that matches no row changes nothing.
DeleteRow(table, key) == [k \in DOMAIN table \ {key} |-> table[k]]

\* mysql.connector.Error messages an INSERT can end with.
InsertErrors(key) ==
    {"Lost connection to MySQL server"} \cup
    (IF key \in DOMAIN db THEN {"Duplicate entry for key PRIMARY"} ELSE {})

\* str(e) of an exception the background delete can end with: one raised by
\* get_db_connection() (conn = "none": nothing was opened), or one raised by
\* cursor.execute / conn.commit on the connection that was opened.
DeleteErrors(conn) ==
    IF conn = "none"
    THEN {"Can't connect to MySQL server"}
    ELSE {"Lost connection to MySQL server during query"}

\* What get_address and update_address hash: the row dict plus its links.
WithLinks(row) == Merge(row, [links |-> links_of(row["id"])])

\* ------------------------------------------------------ POST /addresses

\* created = AddressRead(**address.model_dump()); created.links = [...]
created_of(address, now) ==
    [AddressRead(address, now) EXCEPT !["links"] = links_of(str(address["id"]))]

create_address(address) ==
    LET key == str(address["id"])
    IN  /\ \/ /\ key \notin DOMAIN db
              /\ db' = db @@ (key :> InsertRow(address))
              /\ \E now \in Stamps :
                    LET created == created_of(address, now) IN
                    resp' = IF AddressReadValid(address)
                            THEN Response("create_address", 201,
                                          [Location |-> <<"/addresses/", str(created["id"])>>,
                                           ETag |-> compute_etag(created)],
                                          AddressReadJson(created))
                            ELSE InternalServerError("create_address")
           \/ /\ \E e \in InsertErrors(key) :
                    resp' = HTTPException("create_address", 500, e)
              /\ db' = db
        /\ UNCHANGED <<jobs, tasks, calls>>

\* uuid4() draws a value no row, job or call holds.
Unused(uuid4) ==
    /\ str(uuid4) \notin DOMAIN db
    /\ \A job_id \in DOMAIN jobs : jobs[job_id]["address_id"] # str(uuid4)
    /\ \A c \in InFlight : "address_id" \in DOMAIN c => c["address_id"] # uuid4

\* The request as the framework hands it over: the body parsed into
\* AddressCreate (422 when it does not validate), uuid4 drawn when it has no id.
post_addresses(payload, uuid4) ==
    IF AddressCreateValid(payload)
    THEN /\ "id" \notin DOMAIN payload => Unused(uuid4)
         /\ create_address(AddressCreate(payload, uuid4))
    ELSE /\ resp' = UnprocessableEntity("create_address")
         /\ UNCHANGED <<db, jobs, tasks, calls>>

\* ------------------------------------------------- GET /addresses/{id}

get_address_response(table, address_id, now) ==
    LET key == str(address_id) IN
    IF key \notin DOMAIN table
    THEN HTTPException("get_address", 404, "Address not found")
    ELSE LET result == WithLinks(table[key]) IN
         IF AddressReadValid(result)
         THEN Response("get_address", 200, [ETag |-> compute_etag(result)],
                       AddressReadJson(AddressRead(result, now)))
         ELSE InternalServerError("get_address")

get_address(address_id) ==
    /\ \E now \in Stamps : resp' = get_address_response(db, address_id, now)
    /\ UNCHANGED <<db, jobs, tasks, calls>>

\* ----------------------------------------------- PATCH /addresses/{id}

\* Mutant: the If-Match header is never compared.
update_address_select_unchecked(address_id, update, if_match) ==
    LET key == str(address_id) IN
    /\ IF key \notin DOMAIN db
       THEN /\ resp' = HTTPException("update_address", 404, "Address not found")
            /\ calls' = calls
       ELSE /\ CanBegin
            /\ calls' = Begin([op |-> "update_address",
                               address_id |-> address_id,
                               stored |-> db[key],
                               update |-> model_dump_exclude_unset(update),
                               checked |-> Truthy(if_match)])
            /\ resp' = resp
    /\ UNCHANGED <<db, jobs, tasks>>

\* SELECT, the 404 and the If-Match comparison: one read of the table.  The
\* call goes on with its locals: the row it read and the dumped body; the header is
\* not read again, so the call keeps whether it carried one (a header that
\* passed the comparison is the ETag of `stored`).
update_address_select(address_id, update, if_match) ==
    LET key == str(address_id) IN
    /\ IF key \notin DOMAIN db
       THEN /\ resp' = HTTPException("update_address", 404, "Address not found")
            /\ calls' = calls
       ELSE LET stored == db[key]
                current_etag == compute_etag(WithLinks(stored))
            IN  IF Truthy(if_match) /\ if_match # current_etag
                THEN /\ resp' = HTTPException("update_address", 412, "ETag does not match")
                     /\ calls' = calls
                ELSE /\ CanBegin
                     /\ calls' = Begin([op |-> "update_address",
                                        address_id |-> address_id,
                                        stored |-> stored,
                                        update |-> model_dump_exclude_unset(update),
                                        checked |-> Truthy(if_match)])
                     /\ resp' = resp
    /\ UNCHANGED <<db, jobs, tasks>>

\* updated_data = {**stored, **update.model_dump(exclude_unset=True)}
updated_data_of(c) == Merge(c["stored"], c["update"])

\* What the call answers once its UPDATE is committed: built from its own
\* updated_data, whatever the table holds by then.
update_address_response(c, now) ==
    LET updated_data == Merge(updated_data_of(c),
                              [links |-> links_of(str(c["address_id"]))])
    IN  IF AddressReadValid(updated_data)
        THEN Response("update_address", 200,
                      [ETag |-> compute_etag(updated_data)],
                      AddressReadJson(AddressRead(updated_data, now)))
        ELSE InternalServerError("update_address")

\* UPDATE, commit and the response.
update_address_commit(c) ==
    /\ c \in InFlight
    /\ c["op"] = "update_address"
    /\ db' = UpdateRow(db, str(c["address_id"]), updated_data_of(c))
    /\ \E now \in Stamps : resp' = update_address_response(c, now)
    /\ calls' = End(c)
    /\ UNCHANGED <<jobs, tasks>>

\* ---------------------------------------------- DELETE /addresses/{id}

\* Deletes that still have to take a job id: the jobs made so far and the
\* delete calls past their SELECT.
DeletesStarted ==
    Cardinality(DOMAIN jobs) +
    BagCardinality([c \in {d \in InFlight : d["op"] = "delete_address"} |-> calls[c]])

\* Mutant: the address is not looked up before the job is made.
delete_address_select_unchecked(address_id) ==
    /\ CanBegin
    /\ DeletesStarted < MaxJobs
    /\ calls' = Begin([op |-> "delete_address", address_id |-> address_id])
    /\ resp' = resp
    /\ UNCHANGED <<db, jobs, tasks>>

\* SELECT and the 404.
delete_address_select(address_id) ==
    /\ IF str(address_id) \notin DOMAIN db
       THEN /\ resp' = HTTPException("delete_address", 404, "Address not found")
            /\ calls' = calls
       ELSE /\ CanBegin
            /\ DeletesStarted < MaxJobs
            /\ calls' = Begin([op |-> "delete_address", address_id |-> address_id])
            /\ resp' = resp
    /\ UNCHANGED <<db, jobs, tasks>>

Location(job_id) == <<"/jobs/", job_id>>

\* Mutant: the handler deletes the row itself before it answers.
delete_address_accept_synchronous(c, job_id) ==
    /\ c \in InFlight
    /\ c["op"] = "delete_address"
    /\ job_id \notin DOMAIN jobs
    /\ jobs' = jobs @@ (job_id :> [status |-> "pending",
                                   address_id |-> str(c["address_id"])])
    /\ tasks' = tasks @@ (job_id :> [pc |-> "closed", e |-> None, conn |-> "closed"])
    /\ resp' = Response("delete_address", 202, [Location |-> <<"/jobs/", job_id>>],
                        [job_id |-> job_id, status |-> "accepted",
                         location |-> <<"/jobs/", job_id>>])
    /\ calls' = End(c)
    /\ db' = [k \in DOMAIN db \ {str(c["address_id"])} |-> db[k]]

\* job_id = str(uuid4()); the job enters the dict as pending, the task is added
\* (it runs after the response is sent) and the 202 goes out.
delete_address_accept(c, job_id) ==
    /\ c \in InFlight
    /\ c["op"] = "delete_address"
    /\ job_id \notin DOMAIN jobs
    /\ jobs' = jobs @@ (job_id :> [status |-> "pending",
                                   address_id |-> str(c["address_id"])])
    /\ tasks' = tasks @@ (job_id :> [pc |-> "scheduled", e |-> None, conn |-> "none"])
    /\ resp' = Response("delete_address", 202, [Location |-> Location(job_id)],
                        [job_id |-> job_id, status |-> "accepted",
                         location |-> Location(job_id)])
    /\ calls' = End(c)
    /\ UNCHANGED db

\* ------------------------------------------------ process_delete_job

\* time.sleep, connect, DELETE, commit, close: the row goes at the commit; an
\* exception from any of the statements leaves the table as it was.  The
\* connection is closed on the straight path only: an exception raised once
\* it is open jumps to the except block, which does not close it.
process_delete_job_delete(job_id) ==
    /\ job_id \in DOMAIN tasks
    /\ tasks[job_id]["pc"] = "scheduled"
    /\ \/ /\ db' = DeleteRow(db, jobs[job_id]["address_id"])
          /\ tasks' = [tasks EXCEPT ![job_id] =
                            [pc |-> "closed", e |-> None, conn |-> "closed"]]
       \/ /\ \E e \in DeleteErrors("none") :
                tasks' = [tasks EXCEPT ![job_id] =
                            [pc |-> "except", e |-> e, conn |-> "none"]]
          /\ db' = db
       \/ /\ \E e \in DeleteErrors("open") :
                tasks' = [tasks EXCEPT ![job_id] =
                            [pc |-> "except", e |-> e, conn |-> "open"]]
          /\ db' = db
    /\ UNCHANGED <<jobs, calls, resp>>

\* Mutant: the job is marked completed before the connection is closed, and
\* the close raises.
process_delete_job_completed_early(job_id) ==
    /\ job_id \in DOMAIN tasks
    /\ tasks[job_id]["pc"] = "closed"
    /\ jobs' = [jobs EXCEPT ![job_id]["status"] = "completed"]
    /\ tasks' = [tasks EXCEPT ![job_id] =
                    [pc |-> "except", e |-> "close failed", conn |-> "open"]]
    /\ UNCHANGED <<db, calls, resp>>

\* Mutant: a job that completed is dropped from the job map.
process_delete_job_completed_removed(job_id) ==
    /\ job_id \in DOMAIN tasks
    /\ tasks[job_id]["pc"] = "closed"
    /\ jobs' = [j \in DOMAIN jobs \ {job_id} |-> jobs[j]]
    /\ tasks' = [tasks EXCEPT ![job_id]["pc"] = "done"]
    /\ UNCHANGED <<db, calls, resp>>

\* jobs[job_id]["status"] = "completed"
process_delete_job_completed(job_id) ==
    /\ job_id \in DOMAIN tasks
    /\ tasks[job_id]["pc"] = "closed"
    /\ jobs' = [jobs EXCEPT ![job_id]["status"] = "completed"]
    /\ tasks' = [tasks EXCEPT ![job_id]["pc"] = "done"]
    /\ UNCHANGED <<db, calls, resp>>

\* Mutant: a failed delete is put back to be run again.
process_delete_job_failed_retried(job_id) ==
    /\ job_id \in DOMAIN tasks
    /\ tasks[job_id]["pc"] = "except"
    /\ jobs' = [jobs EXCEPT ![job_id]["status"] = "failed"]
    /\ tasks' = [tasks EXCEPT ![job_id] =
                    [pc |-> "scheduled", e |-> None, conn |-> "none"]]
    /\ UNCHANGED <<db, calls, resp>>

\* Mutant: the except block writes the error message first and stops there.
process_delete_job_failed_error_first(job_id) ==
    /\ job_id \in DOMAIN tasks
    /\ tasks[job_id]["pc"] = "except"
    /\ jobs' = [jobs EXCEPT ![job_id] = Merge(jobs[job_id], [error |-> tasks[job_id]["e"]])]
    /\ tasks' = [tasks EXCEPT ![job_id]["pc"] = "except_error"]
    /\ UNCHANGED <<db, calls, resp>>

\* except Exception as e: jobs[job_id]["status"] = "failed"
process_delete_job_failed(job_id) ==
    /\ job_id \in DOMAIN tasks
    /\ tasks[job_id]["pc"] = "except"
    /\ jobs' = [jobs EXCEPT ![job_id]["status"] = "failed"]
    /\ tasks' = [tasks EXCEPT ![job_id]["pc"] = "except_error"]
    /\ UNCHANGED <<db, calls, resp>>

\* Mutant: the except block stops after the status, the message is dropped.
process_delete_job_error_dropped(job_id) ==
    /\ job_id \in DOMAIN tasks
    /\ tasks[job_id]["pc"] = "except_error"
    /\ jobs' = jobs
    /\ tasks' = [tasks EXCEPT ![job_id]["pc"] = "done"]
    /\ UNCHANGED <<db, calls, resp>>

\* jobs[job_id]["error"] = str(e)
process_delete_job_error(job_id) ==
    /\ job_id \in DOMAIN tasks
    /\ tasks[job_id]["pc"] = "except_error"
    /\ jobs' = [jobs EXCEPT ![job_id] = Merge(jobs[job_id], [error |-> tasks[job_id]["e"]])]
    /\ tasks' = [tasks EXCEPT ![job_id]["pc"] = "done"]
    /\ UNCHANGED <<db, calls, resp>>

process_delete_job(job_id) ==
    \/ process_delete_job_delete(job_id)
    \/ process_delete_job_completed(job_id)
    \/ process_delete_job_failed(job_id)
    \/ process_delete_job_error(job_id)

\* ---------------------------------------------------- GET /jobs/{job_id}

\* if job["status"] in ("pending",): 202 ... else: 200
get_job_status_code(job) ==
    IF job["status"] \in {"pending"} THEN 202 ELSE 200

\* Retry-After is set together with the 202.
get_job_status_headers(status_code) ==
    IF status_code = 202 THEN ("Retry-After" :> "2") ELSE EmptyDict

\* The handler: jobs.get(job_id), the 404, the status code and header chosen
\* from job["status"], and `return job`, the dict of the job map itself.
get_job_status_select(job_id) ==
    /\ IF job_id \notin DOMAIN jobs
       THEN /\ resp' = HTTPException("get_job_status", 404, "Job not found")
            /\ calls' = calls
       ELSE /\ CanBegin
            /\ calls' = Begin([op |-> "get_job_status", job_id |-> job_id,
                               status_code |-> get_job_status_code(jobs[job_id]),
                               pc |-> "returned", allowed_keys |-> {}, used |-> 0,
                               status |-> None])
            /\ resp' = resp
    /\ UNCHANGED <<db, jobs, tasks>>

\* The framework encodes the returned dict after the handler has returned
\* (jsonable_encoder), reading the dict of the job map itself while the worker
\* may be writing it.  `pc` is where the encoder stands.
\*
\* allowed_keys = set(obj.keys()): the keys the dict holds by now.
get_job_status_encode_keys(c) ==
    /\ c \in InFlight
    /\ c["op"] = "get_job_status"
    /\ c["pc"] = "returned"
    /\ calls' = End(c) (+) SetToBag({[c EXCEPT !["pc"] = "keys",
                                               !["allowed_keys"] = DOMAIN jobs[c["job_id"]]]})
    /\ UNCHANGED <<db, jobs, tasks, resp>>

\* obj.items() is iterated: the iterator notes the size the dict has by now.
get_job_status_encode_iter(c) ==
    /\ c \in InFlight
    /\ c["op"] = "get_job_status"
    /\ c["pc"] = "keys"
    /\ calls' = End(c) (+) SetToBag({[c EXCEPT !["pc"] = "iter",
                                               !["used"] = Cardinality(DOMAIN jobs[c["job_id"]])]})
    /\ UNCHANGED <<db, jobs, tasks, resp>>

\* A step of the iterator raises RuntimeError("dictionary changed size during
\* iteration") when the dict has another size than the one it noted.
ChangedSize(c) == Cardinality(DOMAIN jobs[c["job_id"]]) # c["used"]

\* The first item, "status": the value the dict holds by now.  The exception
\* is caught by nothing: the server answers 500.
get_job_status_encode_status(c) ==
    /\ c \in InFlight
    /\ c["op"] = "get_job_status"
    /\ c["pc"] = "iter"
    /\ IF ChangedSize(c)
       THEN /\ resp' = InternalServerError("get_job_status")
            /\ calls' = End(c)
       ELSE /\ resp' = resp
            /\ calls' = End(c) (+) SetToBag({[c EXCEPT !["pc"] = "status",
                                                      !["status"] = jobs[c["job_id"]]["status"]]})
    /\ UNCHANGED <<db, jobs, tasks>>

\* What the encoder has built once the walk is over: the status it read, and
\* of the other items those whose key is in allowed_keys.
encoded_dict(c) ==
    [key \in DOMAIN jobs[c["job_id"]] \cap c["allowed_keys"] |->
        IF key = "status" THEN c["status"] ELSE jobs[c["job_id"]][key]]

\* The other items and the end of the walk; the response goes out with the
\* status code and header the handler chose.
get_job_status_encode_rest(c) ==
    /\ c \in InFlight
    /\ c["op"] = "get_job_status"
    /\ c["pc"] = "status"
    /\ resp' = IF ChangedSize(c)
               THEN InternalServerError("get_job_status")
               ELSE Response("get_job_status", c["status_code"],
                             get_job_status_headers(c["status_code"]), encoded_dict(c))
    /\ calls' = End(c)
    /\ UNCHANGED <<db, jobs, tasks>>

\* ------------------------------------------------------ GET /addresses

LimitMin == 1       \* Query(10, ge=1, le=100)
LimitMax == 100
OffsetMin == 0      \* Query(0, ge=0)

QueryValid(limit, offset) ==
    limit >= LimitMin /\ limit <= LimitMax /\ offset >= OffsetMin

FieldOrder == <<"name", "street", "unit", "city", "state", "postal_code", "country">>

\* `if name:` and the like: a filter that is absent or empty is not applied.
Supplied(filters, f) == f \in DOMAIN filters /\ filters[f] # ""

\* WHERE 1=1 AND f=%s ...: the keys of the rows every supplied filter equals.
Matching(table, filters) ==
    {k \in DOMAIN table : \A f \in Fields : Supplied(filters, f) => table[k][f] = filters[f]}

\* The rows of a key set in the order an unordered SELECT of the table returns
\* them: InnoDB reads the clustered (primary key) index.
RECURSIVE Scan(_, _)
Scan(table, keys) ==
    IF keys = {} THEN << >>
    ELSE LET first == CHOOSE k \in keys : \A o \in keys : k["hex"] <= o["hex"]
         IN  <<table[first]>> \o Scan(table, keys \ {first})

Min(a, b) == IF a <= b THEN a ELSE b
Max(a, b) == IF a >= b THEN a ELSE b

\* SELECT * ... LIMIT limit OFFSET offset
Page(rows, limit, offset) == SubSeq(rows, offset + 1, Min(offset + limit, Len(rows)))

make_qs(filters, extra) ==
    LET given == SelectSeq(FieldOrder, LAMBDA f : Supplied(filters, f))
    IN  [i \in 1..Len(given) |-> <<given[i], filters[given[i]]>>]
        \o << <<"limit", extra["limit"]>>, <<"offset", extra["offset"]>> >>

Link(rel, filters, limit, offset) ==
    [rel |-> rel, href |-> <<"/addresses", make_qs(filters, [limit |-> limit, offset |-> offset])>>]

\* Mutant: the last page taken from total instead of total - 1.
last_offset_floor(total, limit) ==
    IF total > 0 THEN Max(0, (total \div limit) * limit) ELSE 0

last_offset(total, limit) ==
    IF total > 0 THEN Max(0, ((total - 1) \div limit) * limit) ELSE 0

prev_link(filters, limit, offset) ==
    IF offset > 0
    THEN << Link("prev", filters, limit, Max(0, offset - limit)) >>
    ELSE << >>

\* Mutant: a next link also when the page ends exactly at the total.
next_link_inclusive(filters, limit, offset, total) ==
    IF offset + limit <= total
    THEN << Link("next", filters, limit, offset + limit) >>
    ELSE << >>

next_link(filters, limit, offset, total) ==
    IF offset + limit < total
    THEN << Link("next", filters, limit, offset + limit) >>
    ELSE << >>

page_links(filters, limit, offset, total) ==
    << Link("current", filters, limit, offset),
       Link("first", filters, limit, 0),
       Link("last", filters, limit, last_offset(total, limit)) >>
    \o prev_link(filters, limit, offset)
    \o next_link(filters, limit, offset, total)

\* Coordinates in millionths of a degree: lon -73.961967, lat 40.808040.
DefaultLon == 0 - 73961967
DefaultLat == 40808040

address_to_feature(address, lon, lat) ==
    [type |-> "Feature",
     geometry |-> [type |-> "Point", coordinates |-> <<lon, lat>>],
     properties |-> [name |-> Get(address, "name"),
                     address |-> Get(address, "street"),
                     unit |-> Get(address, "unit"),
                     city |-> Get(address, "city"),
                     state |-> Get(address, "state"),
                     country |-> Get(address, "country"),
                     postalCode |-> Get(address, "postal_code"),
                     size |-> IF "size" \in DOMAIN address THEN address["size"] ELSE "5x5",
                     pricePerDay |-> IF "pricePerDay" \in DOMAIN address
                                     THEN address["pricePerDay"] ELSE "15"]]

\* Python objects by type: a list, and a MySQL connection (which is not iterable).
PyList(items) == [type |-> "list", items |-> items]
Connection == [type |-> "MySQLConnection"]

\* [address_to_feature(addr, lon, lat) for addr in addresses]: iterating over
\* anything but a list raises TypeError.
addresses_to_features(addresses, lon, lat) ==
    IF addresses["type"] = "list"
    THEN [raised |-> FALSE,
          value |-> [i \in 1..Len(addresses["items"]) |->
                        address_to_feature(addresses["items"][i], lon, lat)]]
    ELSE [raised |-> TRUE, value |-> << >>]

\* SELECT COUNT(*) as cnt FROM addresses WHERE ...
CountRows(table, filters) == Cardinality(Matching(table, filters))

\* SELECT * FROM addresses WHERE ... LIMIT limit OFFSET offset
SelectPage(table, filters, limit, offset) ==
    Page(Scan(table, Matching(table, filters)), limit, offset)

\* What the handler builds from the count and the rows it fetched: one
\* AddressRead per row (two calls of the clock each, `readings` holds them in
\* order), the links from `total`, and the body.
list_addresses_response(results, total, filters, limit, offset, as_geojson, readings) ==
    LET rows == [i \in 1..Len(results) |-> WithLinks(results[i])]
        items == [i \in 1..Len(rows) |->
                    AddressRead(rows[i], <<readings[2 * i - 1], readings[2 * i]>>)]
        links == page_links(filters, limit, offset, total)
        \* addresses_to_features(conn, [item.model_dump() for item in items]):
        \* the connection is bound to `addresses`, the list to `lon`.
        features == addresses_to_features(Connection, PyList(items), DefaultLat)
    IN  IF \E i \in 1..Len(rows) : ~AddressReadValid(rows[i])
        THEN InternalServerError("list_addresses")
        ELSE IF as_geojson
        THEN IF features["raised"]
             THEN InternalServerError("list_addresses")
             ELSE Response("list_addresses", 200, ("X-Total-Count" :> total),
                           [type |-> "FeatureCollection", features |-> features["value"],
                            links |-> links, total |-> total])
        ELSE Response("list_addresses", 200, ("X-Total-Count" :> total),
                      [data |-> [i \in 1..Len(items) |-> AddressReadJson(items[i])],
                       links |-> links])

\* GET /addresses requests made so far: those in flight and the one answered.
ListsMade ==
    BagCardinality([c \in {d \in InFlight : d["op"] = "list_addresses"} |-> calls[c]])
    + (IF resp["op"] = "list_addresses" THEN 1 ELSE 0)

\* The first statement: the COUNT.  The call goes on with the total and with
\* the table as its transaction first read it.
list_addresses_count(filters, limit, offset, as_geojson) ==
    /\ ListsMade < MaxLists
    /\ IF QueryValid(limit, offset)
       THEN /\ CanBegin
            /\ calls' = Begin([op |-> "list_addresses", filters |-> filters,
                               limit |-> limit, offset |-> offset,
                               as_geojson |-> as_geojson,
                               total |-> CountRows(db, filters),
                               read_view |-> db])
            /\ resp' = resp
       ELSE /\ resp' = UnprocessableEntity("list_addresses")
            /\ calls' = calls
    /\ UNCHANGED <<db, jobs, tasks>>

\* The table the second statement reads.  The isolation level is set outside
\* the source: under REPEATABLE READ the transaction reads the table as its
\* first statement saw it, under READ COMMITTED as it is committed by now.
ReadViews(c) == {c["read_view"], db}

\* The second statement, the page, and the response.
list_addresses_page(c) ==
    /\ c \in InFlight
    /\ c["op"] = "list_addresses"
    /\ \E table \in ReadViews(c) :
          LET results == SelectPage(table, c["filters"], c["limit"], c["offset"])
          IN  \E readings \in Readings(2 * Len(results)) :
                 resp' = list_addresses_response(results, c["total"], c["filters"],
                                                 c["limit"], c["offset"],
                                                 c["as_geojson"], readings)
    /\ calls' = End(c)
    /\ UNCHANGED <<db, jobs, tasks>>

\* ----------------------------------------------------------- the requests

BodyFull == [name |-> "Home", street |-> "1 Main", unit |-> "4B", city |-> "X", country |-> "US"]
BodyMin == [street |-> "1 Main", city |-> "X", country |-> "US"]
BodyBad == [street |-> "1 Main", city |-> "X"]
\* A body with a key that is no field of the model.
BodyExtra == Merge(BodyFull, [size |-> "5x5"])

Bodies == {BodyFull, BodyMin, BodyBad, BodyExtra}

\* The bodies a client sends with an id of its own, in either spelling.
IdBodies == {BodyFull, BodyMin}

Payloads ==
    Bodies \cup
    {Merge(b, [id |-> UuidText(n, form)]) : b \in IdBodies, n \in UuidValues, form \in UuidForms}

\* The PATCH bodies set the city: on a row whose city is "X" that changes the
\* content, on a row whose city is already "Y" it changes nothing.  One of
\* them also carries a key that is no field of the model.
UCity == [city |-> "Y"]
UCityExtra == [city |-> "Y", foo |-> "1"]
Updates == {UCity, UCityExtra}

PathIds == {UUIDObject(n) : n \in UuidValues}

\* ETags a client can hold for an id: those of representations it may have been
\* sent by GET or PATCH, current or not, and the header the POST it has just
\* been answered carried.
KnownETags(address_id) ==
    LET address == AddressCreate(BodyFull, address_id)
        row == InsertRow(address)
    IN  {compute_etag(WithLinks(row)), compute_etag(WithLinks(Merge(row, UCity)))}
        \cup (IF /\ resp["op"] = "create_address"
                 /\ resp["status_code"] = 201
                 /\ resp["body"]["id"] = str(address_id)
              THEN {resp["headers"]["ETag"]} ELSE {})
        \cup (IF str(address_id) \in DOMAIN db
              THEN {compute_etag(WithLinks(db[str(address_id)]))} ELSE {})

IfMatchValues(address_id) == {NoHeader, EmptyHeader} \cup KnownETags(address_id)

\* ------------------------------------------------------------ the system

Init ==
    /\ db = EmptyDict
    /\ jobs = EmptyDict
    /\ tasks = EmptyDict
    /\ calls = EmptyBag
    /\ resp = NoResponse

\* The requests on the addresses: POST, GET, PATCH.
AddressRequests ==
    \/ \E payload \in Payloads, uuid4 \in PathIds : post_addresses(payload, uuid4)
    \/ \E address_id \in PathIds : get_address(address_id)
    \/ \E address_id \in PathIds, update \in Updates :
          \E if_match \in IfMatchValues(address_id) :
              update_address_select(address_id, update, if_match)
    \/ \E c \in InFlight : update_address_commit(c)

\* DELETE and the background task it schedules.
DeleteRequests ==
    \/ \E address_id \in PathIds : delete_address_select(address_id)
    \/ \E c \in InFlight, job_id \in JobIds : delete_address_accept(c, job_id)
    \/ \E job_id \in JobIds : process_delete_job(job_id)

\* GET /jobs/{job_id}: the handler and the encoding of what it returned.
JobRequests ==
    \/ \E job_id \in JobIds : get_job_status_select(job_id)
    \/ \E c \in InFlight : get_job_status_encode_keys(c)
    \/ \E c \in InFlight : get_job_status_encode_iter(c)
    \/ \E c \in InFlight : get_job_status_encode_status(c)
    \/ \E c \in InFlight : get_job_status_encode_rest(c)

Next == AddressRequests \/ DeleteRequests \/ JobRequests

Spec == Init /\ [][Next]_vars

\* The clients send the requests on the addresses and DELETE, and nobody
\* polls a job: the addresses, the table and the workers.
AddressNext == AddressRequests \/ DeleteRequests

AddressSpec == Init /\ [][AddressNext]_vars

\* The clients create an address (under an id of their own or a generated
\* one), read it, delete it and poll the jobs: the job map, its workers and
\* its readers.
JobPayloads ==
    {BodyFull} \cup {Merge(BodyFull, [id |-> str(address_id)]) : address_id \in PathIds}

JobNext ==
    \/ \E payload \in JobPayloads, uuid4 \in PathIds : post_addresses(payload, uuid4)
    \/ \E address_id \in PathIds : get_address(address_id)
    \/ DeleteRequests
    \/ JobRequests

JobSpec == Init /\ [][JobNext]_vars

\* The background tasks are run: each step of process_delete_job is taken
\* once it is enabled.
FairJobSpec ==
    JobSpec /\ \A job_id \in JobIds : WF_vars(process_delete_job(job_id))

\* ------------------------------------------------- the pagination alone

\* A table of `total` rows, as POSTs leave it.
TableRow(n) ==
    InsertRow(AddressCreate(IF n % 2 = 1 THEN BodyFull ELSE Merge(BodyFull, UCity),
                            UUIDObject(n)))

Table(total) == [k \in {str(UUIDObject(n)) : n \in 1..total} |-> TableRow(k["hex"])]

FilterSets == {EmptyDict, [city |-> "X"], [city |-> "", name |-> "Home"]}
Limits == (0..MaxLimit) \cup {LimitMax, LimitMax + 1}
Offsets == (0 - 1)..MaxOffset

\* The table, and for a table that has rows an accepted delete of its first
\* row whose worker has not run yet.
PageInit ==
    /\ db \in {Table(total) : total \in 0..MaxTotal}
    /\ jobs = IF db = EmptyDict THEN EmptyDict
              ELSE (1 :> [status |-> "pending", address_id |-> str(UUIDObject(1))])
    /\ tasks = IF db = EmptyDict THEN EmptyDict
               ELSE (1 :> [pc |-> "scheduled", e |-> None, conn |-> "none"])
    /\ calls = EmptyBag
    /\ resp = NoResponse

PageNext ==
    \/ \E filters \in FilterSets, limit \in Limits, offset \in Offsets, as_geojson \in BOOLEAN :
          list_addresses_count(filters, limit, offset, as_geojson)
    \/ \E c \in InFlight : list_addresses_page(c)
    \/ \E job_id \in JobIds : process_delete_job(job_id)

PageSpec == PageInit /\ [][PageNext]_vars

\* ------------------------------------------------ the job map alone

\* A table of MaxJobAddresses addresses; the clients delete them and poll the
\* jobs.
JobAddressIds == {UUIDObject(n) : n \in 1..MaxJobAddresses}

JobMapInit ==
    /\ db = Table(MaxJobAddresses)
    /\ jobs = EmptyDict
    /\ tasks = EmptyDict
    /\ calls = EmptyBag
    /\ resp = NoResponse

JobMapNext ==
    \/ \E address_id \in JobAddressIds : delete_address_select(address_id)
    \/ \E c \in InFlight, job_id \in JobIds : delete_address_accept(c, job_id)
    \/ \E job_id \in JobIds : process_delete_job(job_id)
    \/ JobRequests

JobMapSpec == JobMapInit /\ [][JobMapNext]_vars

\* ================================================================ claims

\* The ETag GET /addresses/{id} and PATCH compute for the stored row.
StoredETag(table, address_id) == compute_etag(WithLinks(table[str(address_id)]))

\* C1: a PATCH on a stored address whose If-Match header holds an ETag other
\* than the stored row's is answered 412, and it leaves the table (and the
\* calls in flight) as they were.
C1_StaleIfMatchIs412 ==
    [][\A address_id \in PathIds :
        str(address_id) \in DOMAIN db
        => \A if_match \in IfMatchValues(address_id) \ {StoredETag(db, address_id)} :
             Truthy(if_match)
             => \A update \in Updates :
                  update_address_select(address_id, update, if_match)
                  => /\ resp'["op"] = "update_address"
                     /\ resp'["status_code"] = 412
                     /\ db' = db
                     /\ calls' = calls]_vars

\* A PATCH was answered 412 while its address is stored.
C1_Witness ==
    /\ resp["op"] = "update_address"
    /\ resp["status_code"] = 412
    /\ db # EmptyDict

JobAddress(job_id) == UUID(jobs[job_id]["address_id"])

\* The status codes GET /addresses/{id} can answer with on a table, whatever
\* the clock reads.
GetStatus(table, address_id) ==
    {get_address_response(table, address_id, now)["status_code"] : now \in Stamps}

\* The job's worker ran into a storage failure.
StorageFailed(job_id) == job_id \in DOMAIN tasks /\ tasks[job_id]["e"] # None

\* Every accepted job is in the end completed, unless its worker hit a storage
\* failure.
JobsComplete ==
    \A job_id \in JobIds :
        (job_id \in DOMAIN jobs)
        ~> (job_id \in DOMAIN jobs /\
            (jobs[job_id]["status"] = "completed" \/ StorageFailed(job_id)))

\* GET /jobs/{id} has answered that the job is completed.
ReportedCompleted(job_id) ==
    /\ resp["op"] = "get_job_status"
    /\ resp["status_code"] = 200
    /\ resp["body"] = jobs[job_id]
    /\ resp["body"]["status"] = "completed"

\* C2: every accepted job is eventually completed (fair worker, no storage
\* failure), which is what GET /jobs/{id} then reports; and a
\* GET /addresses/{id} of the job's address issued after GET /jobs/{id} has
\* reported the job completed is answered 404.
C2_Original ==
    /\ JobsComplete
    /\ [][\A job_id \in DOMAIN jobs :
            (ReportedCompleted(job_id) /\ get_address(JobAddress(job_id)))
            => resp'["status_code"] = 404]_vars

\* The worker of the job has executed its DELETE.
Deleted(job_id) ==
    tasks[job_id]["pc"] = "closed" \/ jobs[job_id]["status"] = "completed"

\* C3 as stated: when DELETE answers 202, the job it made is pending and the
\* address is still stored.
C3_Original ==
    [][\A c \in InFlight, job_id \in JobIds :
        delete_address_accept(c, job_id)
        => /\ jobs'[job_id]["status"] = "pending"
           /\ str(c["address_id"]) \in DOMAIN db']_vars

\* C3, amended: when DELETE answers 202, the job it made is pending and its own
\* worker has not started; the address is still stored unless the worker of
\* another delete job for the same id has executed its DELETE.
C3_AcceptedIsPending ==
    [][\A c \in InFlight, job_id \in JobIds :
        delete_address_accept(c, job_id)
        => /\ resp'["status_code"] = 202
           /\ jobs'[job_id]["status"] = "pending"
           /\ tasks'[job_id]["pc"] = "scheduled"
           /\ \/ str(c["address_id"]) \in DOMAIN db'
              \/ \E other \in DOMAIN jobs :
                    /\ jobs[other]["address_id"] = str(c["address_id"])
                    /\ Deleted(other)]_vars

\* DELETE was answered 202 and the address is still stored, its job pending.
C3_Witness ==
    /\ resp["op"] = "delete_address"
    /\ resp["status_code"] = 202
    /\ jobs[resp["body"]["job_id"]]["status"] = "pending"
    /\ jobs[resp["body"]["job_id"]]["address_id"] \in DOMAIN db

\* C4: a job enters the dict as pending; its status changes only from pending,
\* and only to completed or failed.
C4_JobTransitions ==
    [][\A job_id \in DOMAIN jobs' :
        IF job_id \in DOMAIN jobs
        THEN jobs'[job_id]["status"] # jobs[job_id]["status"]
             => /\ jobs[job_id]["status"] = "pending"
                /\ jobs'[job_id]["status"] \in {"completed", "failed"}
        ELSE jobs'[job_id]["status"] = "pending"]_vars

\* One job has completed and another has failed.
C4_Witness ==
    /\ \E job_id \in DOMAIN jobs : jobs[job_id]["status"] = "completed"
    /\ \E job_id \in DOMAIN jobs : jobs[job_id]["status"] = "failed"

\* C5: DELETE of an id that is not stored is answered 404; it makes no job,
\* schedules no task and leaves no call behind.
C5_DeleteMissingIs404 ==
    [][\A address_id \in PathIds :
        (delete_address_select(address_id) /\ str(address_id) \notin DOMAIN db)
        => /\ resp'["op"] = "delete_address"
           /\ resp'["status_code"] = 404
           /\ jobs' = jobs
           /\ tasks' = tasks
           /\ calls' = calls]_vars

\* DELETE was answered 404 with no address stored.
C5_Witness ==
    /\ resp["op"] = "delete_address"
    /\ resp["status_code"] = 404
    /\ db = EmptyDict

\* C6: GET /jobs/{job_id} answers 404 exactly when the id is unknown, 202
\* with Retry-After exactly when the job exists and is pending, 200 (without
\* Retry-After) exactly when it exists and is completed or failed: the status
\* of the job being the one the handler reads, and the response that goes out
\* carrying the status code chosen then.
C6_JobStatusCodes ==
    [][/\ \A job_id \in JobIds :
            get_job_status_select(job_id)
            => IF job_id \notin DOMAIN jobs
               THEN /\ resp'["op"] = "get_job_status"
                    /\ resp'["status_code"] = 404
                    /\ calls' = calls
               ELSE \E c \in BagToSet(calls') :
                      /\ calls' = Begin(c)
                      /\ c["op"] = "get_job_status" /\ c["job_id"] = job_id
                      /\ c["status_code"] = 202 <=> jobs[job_id]["status"] = "pending"
                      /\ c["status_code"] = 200
                            <=> jobs[job_id]["status"] \in {"completed", "failed"}
       /\ \A c \in InFlight :
            ( /\ c["op"] = "get_job_status"
              /\ get_job_status_encode_status(c) \/ get_job_status_encode_rest(c)
              /\ calls' = End(c) )
            => /\ c["job_id"] \in DOMAIN jobs
               /\ resp'["op"] = "get_job_status"
               /\ resp'["status_code"] = c["status_code"]
               /\ resp'["status_code"] \in {200, 202}
               /\ "Retry-After" \in DOMAIN resp'["headers"]
                    <=> resp'["status_code"] = 202]_vars

\* ------------------------------------------------------ pagination claims

\* A 200 answer of GET /addresses with data and links.
IsPage(r) == r["op"] = "list_addresses" /\ r["status_code"] = 200

LinksOf(r, rel) == {i \in 1..Len(r["body"]["links"]) : r["body"]["links"][i]["rel"] = rel}

\* The value of a key in a link's query string.
QsValue(link, key) ==
    LET qs == link["href"][2]
    IN  qs[CHOOSE i \in 1..Len(qs) : qs[i][1] = key][2]

LinkOffset(r, rel) == QsValue(r["body"]["links"][CHOOSE i \in LinksOf(r, rel) : TRUE], "offset")

PageTotal(r) == r["headers"]["X-Total-Count"]
PageLimit(r) == QsValue(r["body"]["links"][1], "limit")
PageOffset(r) == QsValue(r["body"]["links"][1], "offset")

\* The greatest multiple of limit strictly below total, 0 when total <= limit.
GreatestMultipleBelow(total, limit) ==
    IF total <= limit THEN 0
    ELSE CHOOSE m \in 0..total :
            /\ m % limit = 0 /\ m < total
            /\ \A n \in 0..total : (n % limit = 0 /\ n < total) => n <= m

\* C7: the offset of the `last` link is the greatest multiple of the limit
\* strictly below the total, 0 when the total is at most the limit.
C7_LastOffset ==
    IsPage(resp)
    => /\ Cardinality(LinksOf(resp, "last")) = 1
       /\ LinkOffset(resp, "last") = GreatestMultipleBelow(PageTotal(resp), PageLimit(resp))

\* A page of a table whose total is a multiple of the limit, and more than it.
C7_Witness ==
    /\ IsPage(resp)
    /\ PageTotal(resp) > PageLimit(resp)
    /\ PageTotal(resp) % PageLimit(resp) = 0
    /\ LinkOffset(resp, "last") = PageTotal(resp) - PageLimit(resp)

\* C8: `next` is absent iff offset + limit >= total and carries offset + limit;
\* `prev` is absent iff offset = 0 and carries max(0, offset - limit).
C8_PrevNext ==
    IsPage(resp)
    => LET T == PageTotal(resp)
           L == PageLimit(resp)
           O == PageOffset(resp)
       IN  /\ LinksOf(resp, "next") = {} <=> O + L >= T
           /\ LinksOf(resp, "next") # {}
                => Cardinality(LinksOf(resp, "next")) = 1 /\ LinkOffset(resp, "next") = O + L
           /\ LinksOf(resp, "prev") = {} <=> O = 0
           /\ LinksOf(resp, "prev") # {}
                => /\ Cardinality(LinksOf(resp, "prev")) = 1
                   /\ LinkOffset(resp, "prev") = Max(0, O - L)

\* A page in the middle with an offset below the limit: prev is clamped to 0.
C8_Witness ==
    /\ IsPage(resp)
    /\ LinksOf(resp, "next") # {} /\ LinksOf(resp, "prev") # {}
    /\ PageOffset(resp) < PageLimit(resp)
    /\ LinkOffset(resp, "prev") = 0

\* C9: GET /addresses with as_geojson=true succeeds with one feature per
\* resource of the page, each a Point at the default coordinates.
C9_GeoJsonFeatures ==
    [][\A c \in InFlight :
        (list_addresses_page(c) /\ c["as_geojson"])
        => /\ resp'["status_code"] = 200
           /\ \E table \in ReadViews(c) :
                Len(resp'["body"]["features"])
                    = Len(SelectPage(table, c["filters"], c["limit"], c["offset"]))
           /\ \A i \in 1..Len(resp'["body"]["features"]) :
                LET g == resp'["body"]["features"][i]["geometry"]
                IN  g["type"] = "Point" /\ g["coordinates"] = <<DefaultLon, DefaultLat>>]_vars

\* C10: after a POST /addresses answered 201, GET /addresses/{id} of the id it
\* returned answers 200 with id, name, street, unit, city, state, postal_code
\* and country equal to the input (null where the input has none), the id being
\* the supplied one or the generated one.
C10_PostThenGet ==
    [][\A payload \in Payloads, uuid4 \in PathIds :
        (resp'["status_code"] = 201 /\ post_addresses(payload, uuid4))
        => \A now \in Stamps :
           LET got == get_address_response(db', UUID(resp'["body"]["id"]), now)
           IN  /\ got["status_code"] = 200
               /\ \A f \in Fields : got["body"][f] = Get(payload, f)
               /\ got["body"]["id"] = resp'["body"]["id"]
               /\ UUID(got["body"]["id"])
                    = (IF "id" \in DOMAIN payload THEN UUID(payload["id"]) ELSE uuid4)]_vars

\* A POST was answered 201 and the row it stored is what GET reads back.
C10_Witness ==
    /\ resp["op"] = "create_address"
    /\ resp["status_code"] = 201
    /\ \E now \in Stamps :
        LET got == get_address_response(db, UUID(resp["body"]["id"]), now)
        IN  got["status_code"] = 200 /\ got["body"]["unit"] = "4B"

\* The row a returned resource stands for: its id and the seven columns.
ResourceRow(body) == [k \in Fields \cup {"id"} |-> body[k]]

\* C11: a PATCH that passed the 404 and If-Match checks and whose address is
\* stored when its UPDATE runs leaves the row equal to the row stored before
\* the write with exactly the fields of the body overridden (the id and every
\* other column unchanged), and it answers 200 with a resource equal to the
\* row then stored; a PATCH on an id that is not stored is answered 404 and
\* changes nothing.
C11_PatchFrame ==
    [][/\ \A c \in InFlight :
            (update_address_commit(c) /\ str(c["address_id"]) \in DOMAIN db)
            => LET key == str(c["address_id"]) IN
               /\ key \in DOMAIN db'
               /\ db'[key] = Merge(db[key], c["update"])
               /\ \A k \in DOMAIN db \ {key} : k \in DOMAIN db' /\ db'[k] = db[k]
               /\ resp'["status_code"] = 200
               /\ ResourceRow(resp'["body"]) = db'[key]
       /\ \A address_id \in PathIds, update \in Updates :
            \A if_match \in IfMatchValues(address_id) :
                (update_address_select(address_id, update, if_match)
                    /\ str(address_id) \notin DOMAIN db)
                => /\ resp'["op"] = "update_address"
                   /\ resp'["status_code"] = 404
                   /\ db' = db /\ jobs' = jobs /\ calls' = calls]_vars

\* C12: the ETag GET /addresses/{id} returns is a function of the stored
\* content.  Two GETs answered 200 from the same table carry the same ETag,
\* whenever they read the clock; and over every step that changes the table,
\* for an id whose GET answers 200 before and after it, the two ETags are
\* equal exactly when the row is the same: equal when the step did not modify
\* the row, different after the UPDATE of a PATCH that changed the value of a
\* field.
C12_ETagFollowsContent ==
    /\ [](\A address_id \in PathIds, now \in Stamps, later \in Stamps :
            LET before == get_address_response(db, address_id, now)
                after == get_address_response(db, address_id, later)
            IN  (before["status_code"] = 200 /\ after["status_code"] = 200)
                => before["headers"]["ETag"] = after["headers"]["ETag"])
    /\ [][db' # db
          => \A address_id \in PathIds, now \in Stamps, later \in Stamps :
               LET key == str(address_id)
                   before == get_address_response(db, address_id, now)
                   after == get_address_response(db', address_id, later)
               IN  (before["status_code"] = 200 /\ after["status_code"] = 200)
                   => (before["headers"]["ETag"] = after["headers"]["ETag"]
                           <=> db'[key] = db[key])]_vars

\* A PATCH was answered 200 and the stored row, which GET answers 200 for,
\* carries the city only a PATCH writes.
C12_Witness ==
    /\ resp["op"] = "update_address"
    /\ resp["status_code"] = 200
    /\ \E address_id \in PathIds :
        /\ str(address_id) \in DOMAIN db
        /\ db[str(address_id)]["city"] = UCity["city"]
        /\ GetStatus(db, address_id) = {200}

\* C13: a connection opened by a call is released by the time the call has
\* finished, whichever way it exits: no background delete that has run to its
\* end (completed or failed) still holds the connection it opened.
C13_ConnectionsReleased ==
    \A job_id \in DOMAIN tasks :
        tasks[job_id]["pc"] = "done" => tasks[job_id]["conn"] # "open"

\* The job reports the failure of its worker: status failed, the message of
\* the exception in its error field, and a GET /jobs/{id} that reads it
\* answers 200.
FailureReported(job_id) ==
    /\ job_id \in DOMAIN jobs
    /\ jobs[job_id]["status"] = "failed"
    /\ "error" \in DOMAIN jobs[job_id]
    /\ jobs[job_id]["error"] = tasks[job_id]["e"]
    /\ get_job_status_code(jobs[job_id]) = 200

\* C14: a storage error raised in the background delete (by the connect, the
\* DELETE or the commit) is captured.  Under a fair worker the job ends failed
\* with the message of the error in its error field, and stays so; a worker
\* that has finished after an error has reported it; and no step of the worker
\* touches a response or a handler call: the failure is seen only in what
\* GET /jobs/{id} answers.
C14_FailureCaptured ==
    /\ \A job_id \in JobIds : StorageFailed(job_id) ~> FailureReported(job_id)
    /\ [](\A job_id \in DOMAIN tasks :
            (StorageFailed(job_id) /\ tasks[job_id]["pc"] = "done")
            => FailureReported(job_id))
    /\ [][\A job_id \in JobIds :
            /\ FailureReported(job_id) => FailureReported(job_id)'
            /\ process_delete_job(job_id) => (resp' = resp /\ calls' = calls)]_vars

\* A poll was answered with the failed job and its error message.
C14_Witness ==
    \E job_id \in DOMAIN jobs :
        /\ FailureReported(job_id)
        /\ resp = Response("get_job_status", 200, EmptyDict, jobs[job_id])
        /\ resp["body"]["error"] \in DeleteErrors("none") \cup DeleteErrors("open")

\* How far the worker of a job has come.
Progress(pc) ==
    CASE pc = "scheduled" -> 0
      [] pc \in {"closed", "except"} -> 1
      [] pc = "except_error" -> 2
      [] pc = "done" -> 3

\* C15: the worker of an accepted job runs exactly once.  Under a fair worker
\* every accepted job's task runs to its end; a task never goes back (its
\* delete step, the only one taken from "scheduled", is taken at most once,
\* after a failure as after a success); a task changes only by a step of its
\* own worker; and a row leaves the table only in the delete step of a job
\* accepted for that address.
C15_WorkerRunsOnce ==
    /\ \A job_id \in JobIds :
            (job_id \in DOMAIN jobs) ~> (job_id \in DOMAIN tasks /\ tasks[job_id]["pc"] = "done")
    /\ [][\A job_id \in DOMAIN tasks :
            /\ job_id \in DOMAIN tasks'
            /\ Progress(tasks'[job_id]["pc"]) >= Progress(tasks[job_id]["pc"])
            /\ tasks'[job_id] # tasks[job_id] => process_delete_job(job_id)
            /\ process_delete_job_delete(job_id)
                 => /\ tasks[job_id]["pc"] = "scheduled"
                    /\ tasks'[job_id]["pc"] # "scheduled"]_vars
    /\ [][\A key \in DOMAIN db :
            key \notin DOMAIN db'
            => \E job_id \in DOMAIN jobs :
                  /\ jobs[job_id]["address_id"] = key
                  /\ process_delete_job_delete(job_id)
                  /\ db' = DeleteRow(db, key)]_vars

\* Two workers have run to their end, one after a failure and one after its
\* DELETE.
C15_Witness ==
    \E failed \in DOMAIN jobs, completed \in DOMAIN jobs :
        /\ tasks[failed]["pc"] = "done" /\ jobs[failed]["status"] = "failed"
        /\ tasks[completed]["pc"] = "done" /\ jobs[completed]["status"] = "completed"

\* C16: a job dict carries an error field only while its status is failed,
\* in the job map and in every body GET /jobs/{id} has answered with, the
\* states between the worker's two writes included: a pending or completed
\* job has no error field.
C16_ErrorOnlyWhenFailed ==
    /\ \A job_id \in DOMAIN jobs :
            "error" \in DOMAIN jobs[job_id] => jobs[job_id]["status"] = "failed"
    /\ (resp["op"] = "get_job_status" /\ "error" \in DOMAIN resp["body"])
            => resp["body"]["status"] = "failed"

\* A poll has seen the job between the worker's two writes: failed, and no
\* error field yet.
C16_Witness ==
    /\ resp["op"] = "get_job_status"
    /\ resp["status_code"] = 200
    /\ resp["body"]["status"] = "failed"
    /\ "error" \notin DOMAIN resp["body"]
    /\ \E job_id \in DOMAIN jobs : "error" \in DOMAIN jobs[job_id]

\* C17: jobs are never removed.  Over every step, a job in the job map stays
\* in it with the address_id it was created with, and GET /jobs/{id} does not
\* answer 404 for it: the handler finds it and goes on, every poll in flight
\* is of a job in the map, and the response that ends the poll is no 404 and,
\* when it carries the job, carries that address_id.
C17_JobsKept ==
    [][/\ \A job_id \in DOMAIN jobs :
            /\ job_id \in DOMAIN jobs'
            /\ jobs'[job_id]["address_id"] = jobs[job_id]["address_id"]
            /\ get_job_status_select(job_id) => (resp' = resp /\ calls' # calls)
       /\ \A c \in InFlight :
            c["op"] = "get_job_status"
            => /\ c["job_id"] \in DOMAIN jobs
               /\ ( /\ get_job_status_encode_status(c) \/ get_job_status_encode_rest(c)
                    /\ calls' = End(c) )
                  => /\ resp'["op"] = "get_job_status"
                     /\ resp'["status_code"] # 404
                     /\ resp'["status_code"] \in {200, 202}
                        => resp'["body"]["address_id"] = jobs[c["job_id"]]["address_id"]]_vars

\* A job whose worker has finished was polled and found, with the address_id
\* it was created with, while the map holds a job of another address.
C17_Witness ==
    /\ resp["op"] = "get_job_status"
    /\ resp["status_code"] = 200
    /\ \E job_id \in DOMAIN jobs, other \in DOMAIN jobs :
        /\ tasks[job_id]["pc"] = "done"
        /\ resp = Response("get_job_status", 200, EmptyDict, jobs[job_id])
        /\ jobs[other]["address_id"] # jobs[job_id]["address_id"]

\* A PATCH call past its If-Match comparison that carried the ETag of the row
\* it read and whose body changes that row.
Conditional(c) ==
    /\ c["op"] = "update_address"
    /\ c["checked"]
    /\ updated_data_of(c) # c["stored"]

\* C18: of two concurrent PATCHes on the same address that both carry as
\* If-Match the ETag of the same stored version and both change it, at most
\* one succeeds: when one of them is answered 200, the answer the other, still
\* in flight, goes on to give is 412.
C18_OneWinner ==
    [][\A c \in InFlight :
        (update_address_commit(c) /\ Conditional(c) /\ resp'["status_code"] = 200)
        => \A d \in BagToSet(calls') :
              ( /\ Conditional(d)
                /\ d["address_id"] = c["address_id"]
                /\ d["stored"] = c["stored"] )
              => \A now \in Stamps :
                    update_address_response(d, now)["status_code"] = 412]_vars

\* C19: the ETag header of a 201 from POST /addresses is the ETag
\* GET /addresses/{id} returns for the address as long as it is unchanged,
\* which is the one PATCH compares If-Match with: right after the POST, GET
\* answers 200 with the same ETag and a PATCH carrying it passes the If-Match
\* comparison.
C19_PostETagIsCurrent ==
    [][\A payload \in Payloads, uuid4 \in PathIds :
        (resp'["status_code"] = 201 /\ post_addresses(payload, uuid4))
        => \A now \in Stamps :
           LET address_id == UUID(resp'["body"]["id"])
               got == get_address_response(db', address_id, now)
           IN  /\ got["status_code"] = 200
               /\ got["headers"]["ETag"] = resp'["headers"]["ETag"]
               /\ Truthy(resp'["headers"]["ETag"])
               /\ resp'["headers"]["ETag"] = StoredETag(db', address_id)]_vars

\* C20: a PATCH is answered 200 only if its address is stored when its UPDATE
\* is applied, and the row stored after it then equals the returned resource;
\* when the address is no longer stored by then (a background delete for the
\* id ran between the PATCH's SELECT and its UPDATE) the PATCH is answered 404.
\* Stated for the calls whose resource passes the response model (the others
\* are answered 500, see C11).
C20_PatchNeedsRow ==
    [][\A c \in InFlight :
        (update_address_commit(c) /\ AddressReadValid(updated_data_of(c)))
        => LET key == str(c["address_id"]) IN
           /\ resp'["status_code"] = 200
                => /\ key \in DOMAIN db
                   /\ key \in DOMAIN db'
                   /\ ResourceRow(resp'["body"]) = db'[key]
           /\ key \notin DOMAIN db => resp'["status_code"] = 404]_vars

====
